---- MODULE Spec2Model ----
(***************************************************************************)
(* Verification model of the myBlueprint Career Launch landing page:       *)
(*   - the email-capture serverless handler (api/email-capture.js) with    *)
(*     its Zoho token refresh and bulk-subscribe calls,                    *)
(*   - the browser FormHandler (js/components/form-handler.js) with its    *)
(*     in-flight flag, retry loop, auto-reset timer and error display.     *)
(* JavaScript strings are sequences of one-character strings, so that      *)
(* includes(), trim() and toLowerCase() are computed, not assumed.         *)
(***************************************************************************)
EXTENDS Integers, Sequences, FiniteSets, TLC

VARIABLES
    \* ---- serverless handler (api/email-capture.js) ----
    env,          \* process.env: which of the four Zoho settings are present
    pc,           \* position of the handler: idle, token, bulk, done
    req,          \* the request being handled
    sent,         \* outbound requests of this request, in order of sending
    tokenState,   \* none, pending, ok, failed: getZohoAccessToken of this request
    accessToken,  \* what getZohoAccessToken returned
    tokenResp,    \* what the token endpoint answered for this request
    bulkResp,     \* what the bulk-subscribe endpoint answered for this request
    upstream,     \* none, ok, failed: subscribeToZohoCampaigns of this request
    res,          \* the response sent (status and body)
    resCount,     \* number of responses sent for this request
    headers,      \* response headers set so far
    log,          \* every (class, status, message) answered so far
    \* ---- browser form (FormHandler, FormValidator) ----
    isSubmitting,     \* this.isSubmitting
    loading,          \* setLoadingState: button and input disabled
    inputValue,       \* this.emailInput.value
    successVisible,   \* successElement has class 'visible'
    errorText,        \* text of the error element (empty: no error shown)
    resetTimers,      \* pending resetForm timers set by handleSuccess
    debouncePending,  \* the debounce timer of validateEmailRealTime is set
    calls,            \* handleSubmit invocations awaiting submitToZoho
    lastCall,         \* how the last settled submission ended
    started,          \* submissions started so far
    development,      \* isDevelopment()
    \* ---- FormValidator called on its own ----
    validator,        \* the FormValidator object: what its methods read from this
    vProbe,           \* the input whose repeated validation is followed
    vFirst,           \* what the first validateEmail(vProbe) returned
    vCall,            \* the last validateEmail call: argument and result
    \* ---- FormHandler's error display called on its own ----
    eCall,            \* the last getErrorMessage call: argument and outcome
    eShown,           \* what showError was last given by handleError
    \* ---- timers: validateEmailRealTime and makeApiCall against elapsing time ----
    rtValue,          \* input.value of the watched field
    timeoutId,        \* ms until the debounce timer is due (NoTimer: none set)
    sinceInput,       \* ms since the last input event, counted up to delay
    rtRuns,           \* validations since the last input event, by trigger
    rtLog,            \* the last validation: trigger, time since the input, what the callback got
    api,              \* one makeApiCall: position, retryCount, running delay, attempts, retries
    \* ---- hero image rotation (ImageRotator) ----
    currentIndex,     \* this.currentIndex
    isPaused,         \* this.isPaused
    isVisible,        \* this.isVisible
    hidden,           \* document.hidden
    hovered,          \* the pointer is over the container
    fading            \* a rotateToNext is waiting for its transition

serverVars ==
    <<env, pc, req, sent, tokenState, accessToken, tokenResp, bulkResp, upstream, res, resCount, headers, log>>

formVars ==
    <<isSubmitting, loading, inputValue, successVisible, errorText, resetTimers, debouncePending,
      calls, lastCall, started, development>>

validatorVars == <<validator, vProbe, vFirst, vCall>>

mappingVars == <<eCall, eShown>>

realTimeVars == <<rtValue, timeoutId, sinceInput, rtRuns, rtLog>>

timerVars == <<realTimeVars, api>>

rotatorVars == <<currentIndex, isPaused, isVisible, hidden, hovered, fading>>

vars == <<serverVars, formVars, validatorVars, mappingVars, timerVars, rotatorVars>>

(***************************************************************************)
(* Bounds                                                                  *)
(***************************************************************************)
\* Submissions one form starts in a run
MaxSubmits == 2

\* Blur events followed between two input events
MaxBlurs == 2

\* Milliseconds by which the timed runs let time advance in one step
Quantum == 100


(***************************************************************************)
(* JavaScript values                                                       *)
(***************************************************************************)
JsUndefined == [t |-> "undefined", s |-> <<>>, n |-> 0]

JsString(cs) == [t |-> "string", s |-> cs, n |-> 0]

JsNumber(k) == [t |-> "number", s |-> <<>>, n |-> k]

\* !v is FALSE exactly for truthy values
Truthy(v) ==
    CASE v.t = "undefined" -> FALSE
      [] v.t = "string" -> v.s # <<>>
      [] v.t = "number" -> v.n # 0
      [] OTHER -> TRUE

\* v.includes is a function only for strings (a number has no such method)
HasIncludes(v) == v.t = "string"

\* mutant: the email check accepts every string
IncludesAnything(v, ch) == TRUE

\* v.includes(ch) for a string v and a one-character needle
Includes(v, ch) == \E i \in DOMAIN v.s : v.s[i] = ch

(***************************************************************************)
(* Requests the handler can receive                                        *)
(***************************************************************************)
Methods == {"OPTIONS", "POST", "GET"}

EmailValues ==
    { JsUndefined,
      JsString(<<>>),
      JsString(<<"@">>),
      JsString(<<"j", "a", "n", "e", "@", "s", "c", "h", "o", "o", "l", ".", "o", "r", "g">>),
      JsString(<<"j", "a", "n", "e", ".", "s", "c", "h", "o", "o", "l", ".", "o", "r", "g">>),
      JsNumber(0),
      JsNumber(123) }

SourceValues ==
    { JsUndefined,
      JsString(<<>>),
      JsString(<<"n", "e", "w", "s", "l", "e", "t", "t", "e", "r">>) }

\* req.body: a parsed JSON object, a text body (a string), no body at all
\* (undefined), or a getter that throws on malformed JSON
Bodies ==
    { [kind |-> "object", email |-> e, source |-> s] : e \in EmailValues, s \in SourceValues }
    \cup { [kind |-> k, email |-> JsUndefined, source |-> JsUndefined] : k \in {"string", "undefined", "throws"} }

NoRequest == [method |-> "none", body |-> [kind |-> "undefined", email |-> JsUndefined, source |-> JsUndefined]]

\* const { email, source } = req.body throws for an absent body or a throwing getter
DestructureThrows(body) == body.kind \in {"undefined", "throws"}

Envs == [clientId : BOOLEAN, clientSecret : BOOLEAN, refreshToken : BOOLEAN, listKey : BOOLEAN]

(***************************************************************************)
(* Responses                                                               *)
(***************************************************************************)
NoResponse == [status |-> 0, kind |-> "none", message |-> "", email |-> JsUndefined, source |-> JsUndefined, fields |-> {}]

\* mutant: Access-Control-Allow-Headers is not set
CorsHeadersWithoutAllowHeaders ==
    { "Access-Control-Allow-Origin", "Access-Control-Allow-Methods" }

CorsHeaders ==
    { "Access-Control-Allow-Origin", "Access-Control-Allow-Methods", "Access-Control-Allow-Headers" }

DefaultSource ==
    JsString(<<"c", "a", "r", "e", "e", "r", "-", "l", "a", "u", "n", "c", "h", "-", "l", "a", "n", "d", "i", "n", "g">>)

\* mutant: the outer catch answers like the email check does, with status 400
ErrorResponseBadRequest ==
    [status |-> 400, kind |-> "json", message |-> "An error occurred. Please try again.",
     email |-> JsUndefined, source |-> JsUndefined, fields |-> {"message"}]

\* the outer catch: res.status(500).json({ message: 'An error occurred. Please try again.' })
ErrorResponse ==
    [status |-> 500, kind |-> "json", message |-> "An error occurred. Please try again.",
     email |-> JsUndefined, source |-> JsUndefined, fields |-> {"message"}]

\* const emailSource = source || 'career-launch-landing'
EmailSource(source) == IF Truthy(source) THEN source ELSE DefaultSource

\* mutant: the preflight answered the way the cors middleware does, 204
PreflightResponseNoContent ==
    [status |-> 204, kind |-> "end", message |-> "", email |-> JsUndefined, source |-> JsUndefined, fields |-> {}]

\* res.status(200).end()
PreflightResponse ==
    [status |-> 200, kind |-> "end", message |-> "", email |-> JsUndefined, source |-> JsUndefined, fields |-> {}]

MethodNotAllowedResponse ==
    [status |-> 405, kind |-> "json", message |-> "Method not allowed",
     email |-> JsUndefined, source |-> JsUndefined, fields |-> {"message"}]

InvalidEmailResponse ==
    [status |-> 400, kind |-> "json", message |-> "Please provide a valid email address",
     email |-> JsUndefined, source |-> JsUndefined, fields |-> {"message"}]

SuccessMessage == "Thank you! We'll notify you as soon as the agenda is available."

SoftAckMessage == "Thank you for your interest! We'll be in touch soon."

SuccessResponse(email, source) ==
    [status |-> 200, kind |-> "json", message |-> SuccessMessage,
     email |-> email, source |-> EmailSource(source), fields |-> {"message", "email", "source"}]

\* mutant: the inner catch rethrows, so the outer catch answers
SoftAckResponseRethrown(email, source) == ErrorResponse

SoftAckResponse(email, source) ==
    [status |-> 200, kind |-> "json", message |-> SoftAckMessage,
     email |-> email, source |-> EmailSource(source), fields |-> {"message", "email", "source"}]

\* mutant: the configuration check sits outside the inner try
ConfigFailureResponseUncaught(email, source) == ErrorResponse

\* A configuration error thrown by subscribeToZohoCampaigns or getZohoAccessToken
\* lands in the handler's inner catch, like any other upstream failure
ConfigFailureResponse(email, source) == SoftAckResponse(email, source)

(***************************************************************************)
(* getZohoAccessToken and subscribeToZohoCampaigns                         *)
(***************************************************************************)
\* mutant: the refresh token is not checked
CredentialsMissingNoRefresh(e) == ~e.clientId \/ ~e.clientSecret

\* if (!clientId || !clientSecret || !refreshToken) throw
CredentialsMissing(e) == ~e.clientId \/ ~e.clientSecret \/ ~e.refreshToken

\* if (!listKey) throw
ListKeyMissing(e) == ~e.listKey

\* What the token endpoint can do: the fetch rejects, or resolves with a status
\* (ok or not) and a body that is JSON or not, with or without an error field
\* and with or without an access_token
TokenResponses ==
    [net : {"resolve", "reject"}, ok : BOOLEAN, json : BOOLEAN, error : BOOLEAN,
     token : {"undefined", "empty", "string"}]

NoTokenResponse == [net |-> "none", ok |-> FALSE, json |-> FALSE, error |-> FALSE, token |-> "undefined"]

\* mutant: the response status and error field are not inspected
TokenThrowsUnchecked(r) == r.net = "reject" \/ ~r.json

\* getZohoAccessToken throws: fetch rejected, response.json() failed, or
\* !response.ok || data.error
TokenThrows(r) == r.net = "reject" \/ ~r.json \/ ~r.ok \/ r.error

\* Values the code field of the parsed body can have: absent, '0', '', 0, and error codes
ProviderCodes ==
    { JsUndefined, JsString(<<"0">>), JsString(<<>>), JsNumber(0), JsNumber(2501),
      JsString(<<"2", "5", "0", "1">>) }

NoBulkResponse == [net |-> "none", ok |-> FALSE, json |-> FALSE, data |-> "object", code |-> JsUndefined]

\* What the bulk-subscribe endpoint can do: the fetch rejects, or resolves with a
\* status (ok or not) and a text that is not JSON, is the JSON null, or is a JSON
\* object with or without a code field
BulkResponses ==
    {[NoBulkResponse EXCEPT !.net = "reject"]}
    \cup {[NoBulkResponse EXCEPT !.net = "resolve", !.ok = ok] : ok \in BOOLEAN}
    \cup {[NoBulkResponse EXCEPT !.net = "resolve", !.ok = ok, !.json = TRUE, !.data = "null"] : ok \in BOOLEAN}
    \cup {[NoBulkResponse EXCEPT !.net = "resolve", !.ok = r[1], !.json = TRUE, !.code = r[2]] :
              r \in BOOLEAN \X ProviderCodes}

\* mutant: every code that is set is an error, '0' included
ProviderErrorAnyCode(code) == Truthy(code)

\* data.code && data.code !== '0'
ProviderError(code) == Truthy(code) /\ code # JsString(<<"0">>)

\* subscribeToZohoCampaigns throws after the bulk call: fetch rejected, JSON.parse
\* failed, !response.ok, data.code read on null, or a provider error code
BulkThrows(r) ==
    r.net = "reject" \/ ~r.json \/ ~r.ok \/ r.data = "null" \/ ProviderError(r.code)

(***************************************************************************)
(* The handler                                                             *)
(***************************************************************************)
\* One response leaves the handler: res.status(..).json(..) or .end()
Respond(cls, r) ==
    /\ res' = r
    /\ resCount' = resCount + 1
    /\ log' = log \cup {[cls |-> cls, status |-> r.status, message |-> r.message, fields |-> r.fields]}
    /\ pc' = "done"

\* The handler up to its first await: CORS headers, method dispatch, body
\* destructuring, email check, then subscribeToZohoCampaigns up to the token fetch
Handler(m, b) ==
    /\ pc = "idle"
    /\ UNCHANGED <<formVars, validatorVars, mappingVars, timerVars, rotatorVars>>
    /\ req' = [method |-> m, body |-> b]
    /\ headers' = CorsHeaders
    /\ UNCHANGED <<env, accessToken, tokenResp, bulkResp>>
    /\ IF m = "OPTIONS"
       THEN Respond("preflight", PreflightResponse) /\ UNCHANGED <<sent, tokenState, upstream>>
       ELSE IF m # "POST"
       THEN Respond("method", MethodNotAllowedResponse) /\ UNCHANGED <<sent, tokenState, upstream>>
       ELSE IF DestructureThrows(b)
       THEN Respond("error", ErrorResponse) /\ UNCHANGED <<sent, tokenState, upstream>>
       ELSE IF ~Truthy(b.email)
       THEN Respond("invalid", InvalidEmailResponse) /\ UNCHANGED <<sent, tokenState, upstream>>
       ELSE IF ~HasIncludes(b.email)
       THEN Respond("error", ErrorResponse) /\ UNCHANGED <<sent, tokenState, upstream>>
       ELSE IF ~Includes(b.email, "@")
       THEN Respond("invalid", InvalidEmailResponse) /\ UNCHANGED <<sent, tokenState, upstream>>
       ELSE IF ListKeyMissing(env)
       THEN /\ upstream' = "failed"
            /\ Respond("config", ConfigFailureResponse(b.email, b.source))
            /\ UNCHANGED <<sent, tokenState>>
       ELSE IF CredentialsMissing(env)
       THEN /\ upstream' = "failed"
            /\ tokenState' = "failed"
            /\ Respond("config", ConfigFailureResponse(b.email, b.source))
            /\ UNCHANGED sent
       ELSE /\ sent' = Append(sent, "token")
            /\ tokenState' = "pending"
            /\ pc' = "token"
            /\ UNCHANGED <<upstream, res, resCount, log>>

\* The token fetch settles: getZohoAccessToken throws (caught by the handler's
\* inner catch) or returns data.access_token; then the bulk-subscribe fetch is sent
TokenSettles(r) ==
    /\ pc = "token"
    /\ UNCHANGED <<formVars, validatorVars, mappingVars, timerVars, rotatorVars>>
    /\ tokenResp' = r
    /\ UNCHANGED <<env, req, headers, bulkResp>>
    /\ IF TokenThrows(r)
       THEN /\ tokenState' = "failed"
            /\ upstream' = "failed"
            /\ Respond("upstream", SoftAckResponse(req.body.email, req.body.source))
            /\ UNCHANGED <<sent, accessToken>>
       ELSE /\ tokenState' = "ok"
            /\ accessToken' = r.token
            /\ sent' = Append(sent, "bulk")
            /\ pc' = "bulk"
            /\ UNCHANGED <<upstream, res, resCount, log>>

\* The bulk-subscribe fetch settles: subscribeToZohoCampaigns throws or returns
BulkSettles(r) ==
    /\ pc = "bulk"
    /\ UNCHANGED <<formVars, validatorVars, mappingVars, timerVars, rotatorVars>>
    /\ bulkResp' = r
    /\ UNCHANGED <<env, req, headers, sent, tokenState, accessToken, tokenResp>>
    /\ IF BulkThrows(r)
       THEN /\ upstream' = "failed"
            /\ Respond("upstream", SoftAckResponse(req.body.email, req.body.source))
       ELSE /\ upstream' = "ok"
            /\ Respond("success", SuccessResponse(req.body.email, req.body.source))

\* The invocation is over; the function instance is ready for the next request
Complete ==
    /\ pc = "done"
    /\ UNCHANGED <<formVars, validatorVars, mappingVars, timerVars, rotatorVars>>
    /\ pc' = "idle"
    /\ req' = NoRequest
    /\ sent' = <<>>
    /\ tokenState' = "none"
    /\ accessToken' = "undefined"
    /\ tokenResp' = NoTokenResponse
    /\ bulkResp' = NoBulkResponse
    /\ upstream' = "none"
    /\ res' = NoResponse
    /\ resCount' = 0
    /\ headers' = {}
    /\ UNCHANGED <<env, log>>

\* The deployment's environment variables change between invocations
Reconfigure(e) ==
    /\ pc = "idle"
    /\ UNCHANGED <<formVars, validatorVars, mappingVars, timerVars, rotatorVars>>
    /\ e # env
    /\ env' = e
    /\ UNCHANGED <<pc, req, sent, tokenState, accessToken, tokenResp, bulkResp, upstream, res, resCount, headers, log>>

InitServer ==
    /\ env \in Envs
    /\ pc = "idle"
    /\ req = NoRequest
    /\ sent = <<>>
    /\ tokenState = "none"
    /\ accessToken = "undefined"
    /\ tokenResp = NoTokenResponse
    /\ bulkResp = NoBulkResponse
    /\ upstream = "none"
    /\ res = NoResponse
    /\ resCount = 0
    /\ headers = {}
    /\ log = {}

NextServer ==
    \/ \E m \in Methods, b \in Bodies : Handler(m, b)
    \/ \E r \in TokenResponses : TokenSettles(r)
    \/ \E r \in BulkResponses : BulkSettles(r)
    \/ Complete
    \/ \E e \in Envs : Reconfigure(e)

(***************************************************************************)
(* FormValidator (js/validation.js)                                        *)
(***************************************************************************)
LowerLetters ==
    <<"a", "b", "c", "d", "e", "f", "g", "h", "i", "j", "k", "l", "m",
      "n", "o", "p", "q", "r", "s", "t", "u", "v", "w", "x", "y", "z">>

UpperLetters ==
    <<"A", "B", "C", "D", "E", "F", "G", "H", "I", "J", "K", "L", "M",
      "N", "O", "P", "Q", "R", "S", "T", "U", "V", "W", "X", "Y", "Z">>

Digits == {"0", "1", "2", "3", "4", "5", "6", "7", "8", "9"}

Whitespace == {" ", "\t", "\n", "\r"}

IsLower(c) == \E i \in DOMAIN LowerLetters : LowerLetters[i] = c

IsUpper(c) == \E i \in DOMAIN UpperLetters : UpperLetters[i] = c

IsAlnum(c) == IsLower(c) \/ IsUpper(c) \/ c \in Digits

\* String.prototype.toLowerCase, one character
ToLowerChar(c) ==
    IF IsUpper(c) THEN LowerLetters[CHOOSE i \in DOMAIN UpperLetters : UpperLetters[i] = c] ELSE c

\* String.prototype.toLowerCase
ToLowerCase(s) == [i \in DOMAIN s |-> ToLowerChar(s[i])]

\* mutant: only the space character is trimmed
TrimSpacesOnly(s) ==
    LET keep == {i \in DOMAIN s : s[i] # " "}
    IN  IF keep = {} THEN <<>>
        ELSE LET lo == CHOOSE i \in keep : \A j \in keep : i <= j
                 hi == CHOOSE i \in keep : \A j \in keep : j <= i
             IN  SubSeq(s, lo, hi)

\* String.prototype.trim: whitespace removed from both ends
Trim(s) ==
    LET keep == {i \in DOMAIN s : s[i] \notin Whitespace}
    IN  IF keep = {} THEN <<>>
        ELSE LET lo == CHOOSE i \in keep : \A j \in keep : i <= j
                 hi == CHOOSE i \in keep : \A j \in keep : j <= i
             IN  SubSeq(s, lo, hi)

\* String.prototype.includes(sub) on character sequences
IncludesStr(s, sub) ==
    \E i \in 0..(Len(s) - Len(sub)) : SubSeq(s, i + 1, i + Len(sub)) = sub

StartsWith(s, pre) == Len(pre) <= Len(s) /\ SubSeq(s, 1, Len(pre)) = pre

EndsWith(s, suf) == Len(suf) <= Len(s) /\ SubSeq(s, Len(s) - Len(suf) + 1, Len(s)) = suf

\* Positions of ch in s
IndexesOf(s, ch) == {i \in DOMAIN s : s[i] = ch}

\* this.errors
Errors ==
    [ REQUIRED |-> <<"T", "h", "i", "s", " ", "f", "i", "e", "l", "d", " ", "i", "s", " ", "r",
          "e", "q", "u", "i", "r", "e", "d">>,
      INVALID_EMAIL |-> <<"P", "l", "e", "a", "s", "e", " ", "e", "n", "t", "e", "r", " ", "a",
          " ", "v", "a", "l", "i", "d", " ", "e", "m", "a", "i", "l", " ", "a", "d", "d",
          "r", "e", "s", "s">>,
      TOO_LONG |-> <<"E", "m", "a", "i", "l", " ", "a", "d", "d", "r", "e", "s", "s", " ", "i",
          "s", " ", "t", "o", "o", " ", "l", "o", "n", "g", " ", "(", "m", "a", "x", "i",
          "m", "u", "m", " ", "2", "5", "4", " ", "c", "h", "a", "r", "a", "c", "t", "e",
          "r", "s", ")">>,
      DISPOSABLE_EMAIL |-> <<"P", "l", "e", "a", "s", "e", " ", "u", "s", "e", " ", "a", " ", "p",
          "e", "r", "m", "a", "n", "e", "n", "t", " ", "e", "m", "a", "i", "l", " ", "a",
          "d", "d", "r", "e", "s", "s">>,
      GENERIC_ERROR |-> <<"P", "l", "e", "a", "s", "e", " ", "c", "h", "e", "c", "k", " ", "y",
          "o", "u", "r", " ", "e", "m", "a", "i", "l", " ", "a", "d", "d", "r", "e", "s",
          "s", " ", "a", "n", "d", " ", "t", "r", "y", " ", "a", "g", "a", "i", "n">> ]

\* 'Please enter a valid email address'
NoError == <<>>

ErrorCatalog == {Errors[k] : k \in DOMAIN Errors}

\* this.disposableDomains
DisposableDomains ==
    { <<"1", "0", "m", "i", "n", "u", "t", "e", "m", "a", "i", "l", ".", "c", "o", "m">>,
      <<"t", "e", "m", "p", "m", "a", "i", "l", ".", "o", "r", "g">>,
      <<"g", "u", "e", "r", "r", "i", "l", "l", "a", "m", "a", "i", "l", ".", "c", "o", "m">>,
      <<"m", "a", "i", "l", "i", "n", "a", "t", "o", "r", ".", "c", "o", "m">>,
      <<"t", "e", "m", "p", "-", "m", "a", "i", "l", ".", "o", "r", "g">>,
      <<"t", "h", "r", "o", "w", "a", "w", "a", "y", ".", "e", "m", "a", "i", "l">> }

\* the grave accent (U+0060), which a string literal of this notation cannot hold
GraveAccent == "U+0060"

\* the local-part character class of this.emailRegex
LocalSpecials ==
    {".", "!", "#", "$", "%", "&", "'", "*", "+", "/", "=", "?", "^", "_", GraveAccent,
     "{", "|", "}", "~", "-"}

IsLocalChar(c) == IsAlnum(c) \/ c \in LocalSpecials

\* the {0,61} of a label's middle part
MaxLabelMiddle == 61

\* one domain label: [a-zA-Z0-9](?:[a-zA-Z0-9-]{0,61}[a-zA-Z0-9])?
IsLabel(l) ==
    /\ Len(l) >= 1 /\ Len(l) <= MaxLabelMiddle + 2
    /\ IsAlnum(l[1]) /\ IsAlnum(l[Len(l)])
    /\ \A i \in DOMAIN l : IsAlnum(l[i]) \/ l[i] = "-"

\* the domain part of this.emailRegex: labels separated by single dots
IsDomain(d) ==
    LET dots == IndexesOf(d, ".")
        cuts == {0} \cup dots \cup {Len(d) + 1}
    IN  /\ Len(d) >= 1
        /\ \A a \in cuts : a <= Len(d) =>
              LET b == CHOOSE x \in cuts : x > a /\ \A y \in cuts : y > a => x <= y
              IN  IsLabel(SubSeq(d, a + 1, b - 1))

\* this.emailRegex.test(value)
EmailRegexTest(v) ==
    LET ats == IndexesOf(v, "@")
    IN  /\ Cardinality(ats) = 1
        /\ LET at == CHOOSE i \in ats : TRUE
           IN  /\ at >= 2
               /\ \A i \in 1..(at - 1) : IsLocalChar(v[i])
               /\ IsDomain(SubSeq(v, at + 1, Len(v)))

\* value.split('@')[1] for a value with exactly one '@'
DomainOf(v) ==
    LET at == CHOOSE i \in IndexesOf(v, "@") : TRUE
    IN  SubSeq(v, at + 1, Len(v))

SuspiciousLocals == { <<"t", "e", "s", "t">>, <<"f", "a", "k", "e">>, <<"s", "p", "a", "m">>, <<"n", "o", "r", "e", "p", "l", "y">> }

SuspiciousSuffixes == { <<"e", "x", "a", "m", "p", "l", "e", ".", "c", "o", "m">>, <<"l", "o", "c", "a", "l", "h", "o", "s", "t">>, <<".", "l", "o", "c", "a", "l">> }

\* the {4,} of the repeated-character pattern
MinRepeats == 4

\* /(.)\1{4,}@/i: a character and four or more repetitions of it right before an '@'
HasRepeatBeforeAt(v) ==
    \E at \in IndexesOf(v, "@") :
        /\ at > MinRepeats + 1
        /\ \A k \in 1..MinRepeats : ToLowerChar(v[at - k]) = ToLowerChar(v[at - MinRepeats - 1])

\* isSuspiciousEmail: some pattern of suspiciousPatterns matches
IsSuspiciousEmail(v) ==
    LET low == ToLowerCase(v)
    IN  \/ \E p \in SuspiciousLocals : StartsWith(low, p \o <<"@">>)
        \/ \E x \in SuspiciousSuffixes : EndsWith(low, x)
        \/ \E at \in IndexesOf(v, "@") : at >= 2 /\ \A i \in 1..(at - 1) : v[i] \in Digits
        \/ (Len(v) >= 2 /\ v[2] = "@" /\ IsLower(low[1]))
        \/ HasRepeatBeforeAt(v)

\* new FormValidator(): what the constructor stores on the object
NewFormValidator ==
    [ disposableDomains |-> DisposableDomains,
      errors |-> Errors ]

\* mutant: the value is lowercased but not trimmed
NormalizedValueNoTrim(email) == IF Truthy(email) THEN ToLowerCase(email.s) ELSE <<>>

\* value: email ? email.trim().toLowerCase() : ''
NormalizedValue(email) == IF Truthy(email) THEN ToLowerCase(Trim(email.s)) ELSE <<>>

MaxEmailLength == 254

\* !result.value
FailsRequired(value) == value = <<>>

\* mutant: the limit is taken one character too high
FailsTooLongOffByOne(value) == Len(value) > MaxEmailLength + 1

\* result.value.length > 254
FailsTooLong(value) == Len(value) > MaxEmailLength

\* !this.emailRegex.test(result.value)
FailsFormat(value) == ~EmailRegexTest(value)

\* this.disposableDomains.includes(domain)
IsDisposable(self, value) == DomainOf(value) \in self.disposableDomains

\* mutant: a suspicious address is rejected without an error
SuspiciousErrorMissing(self) == NoError

\* mutant: a suspicious address gets an error of its own
SuspiciousErrorGeneric(self) == self.errors.GENERIC_ERROR

\* the error stored for an address that isSuspiciousEmail matches
SuspiciousError(self) == self.errors.INVALID_EMAIL

\* mutant: the suspicious-pattern step runs before the denylist step
ValidateEmailOnSuspiciousFirst(self, email) ==
    LET value == NormalizedValue(email)
    IN  IF FailsRequired(value)
        THEN [isValid |-> FALSE, error |-> self.errors.REQUIRED, value |-> value]
        ELSE IF FailsTooLong(value)
        THEN [isValid |-> FALSE, error |-> self.errors.TOO_LONG, value |-> value]
        ELSE IF FailsFormat(value)
        THEN [isValid |-> FALSE, error |-> self.errors.INVALID_EMAIL, value |-> value]
        ELSE IF IsSuspiciousEmail(value)
        THEN [isValid |-> FALSE, error |-> SuspiciousError(self), value |-> value]
        ELSE IF IsDisposable(self, value)
        THEN [isValid |-> FALSE, error |-> self.errors.DISPOSABLE_EMAIL, value |-> value]
        ELSE [isValid |-> TRUE, error |-> NoError, value |-> value]

\* validateEmail(email) of the validator object self: the result {isValid, error, value}
ValidateEmailOn(self, email) ==
    LET value == NormalizedValue(email)
    IN  IF FailsRequired(value)
        THEN [isValid |-> FALSE, error |-> self.errors.REQUIRED, value |-> value]
        ELSE IF FailsTooLong(value)
        THEN [isValid |-> FALSE, error |-> self.errors.TOO_LONG, value |-> value]
        ELSE IF FailsFormat(value)
        THEN [isValid |-> FALSE, error |-> self.errors.INVALID_EMAIL, value |-> value]
        ELSE IF IsDisposable(self, value)
        THEN [isValid |-> FALSE, error |-> self.errors.DISPOSABLE_EMAIL, value |-> value]
        ELSE IF IsSuspiciousEmail(value)
        THEN [isValid |-> FALSE, error |-> SuspiciousError(self), value |-> value]
        ELSE [isValid |-> TRUE, error |-> NoError, value |-> value]

\* validateEmail(email) of the page's validator, which is as constructed
ValidateEmail(email) == ValidateEmailOn(NewFormValidator, email)

\* mutant: the validator adds the domain of every well-formed address to its denylist
ValidateEmailEffectLearns(self, email) ==
    LET value == NormalizedValue(email)
    IN  IF FailsRequired(value) \/ FailsTooLong(value) \/ FailsFormat(value)
        THEN self
        ELSE [self EXCEPT !.disposableDomains = @ \cup {DomainOf(value)}]

\* What validateEmail leaves on the object: it assigns to its local result only
ValidateEmailEffect(self, email) == self

\* mutant: data.email is the field's text as typed
ValidateFormDataRaw(email) ==
    LET r == ValidateEmail(email)
    IN  IF ~r.isValid
        THEN [isValid |-> FALSE, error |-> r.error, email |-> <<>>]
        ELSE [isValid |-> TRUE, error |-> NoError, email |-> email.s]

\* validateFormData(formData): {isValid, errors.email, data.email}
ValidateFormData(email) ==
    LET r == ValidateEmail(email)
    IN  IF ~r.isValid
        THEN [isValid |-> FALSE, error |-> r.error, email |-> <<>>]
        ELSE [isValid |-> TRUE, error |-> NoError, email |-> r.value]

(***************************************************************************)
(* FormHandler (js/components/form-handler.js)                             *)
(***************************************************************************)
\* this.apiConfig
maxRetries == 3

retryDelay == 1000

\* Error objects carry a message; getErrorMessage also receives plain strings
JsError(cs) == [t |-> "error", s |-> cs, n |-> 0]

\* the substrings getErrorMessage looks for
Needles ==
    [ failedToFetch |-> <<"F", "a", "i", "l", "e", "d", " ", "t", "o", " ", "f", "e", "t", "c",
          "h">>,
      networkError |-> <<"N", "e", "t", "w", "o", "r", "k", "E", "r", "r", "o", "r">>,
      timeout |-> <<"t", "i", "m", "e", "o", "u", "t">>,
      aborted |-> <<"a", "b", "o", "r", "t", "e", "d">>,
      s400 |-> <<"4", "0", "0">>,
      s429 |-> <<"4", "2", "9">>,
      s500 |-> <<"5", "0", "0">>,
      s502 |-> <<"5", "0", "2">>,
      s503 |-> <<"5", "0", "3">> ]

\* the six user sentences of getErrorMessage
Sentences ==
    [ network |-> <<"P", "l", "e", "a", "s", "e", " ", "c", "h", "e", "c", "k", " ", "y", "o",
          "u", "r", " ", "i", "n", "t", "e", "r", "n", "e", "t", " ", "c", "o", "n", "n",
          "e", "c", "t", "i", "o", "n", " ", "a", "n", "d", " ", "t", "r", "y", " ", "a",
          "g", "a", "i", "n", ".">>,
      timeout |-> <<"R", "e", "q", "u", "e", "s", "t", " ", "t", "i", "m", "e", "d", " ", "o",
          "u", "t", ".", " ", "P", "l", "e", "a", "s", "e", " ", "t", "r", "y", " ", "a",
          "g", "a", "i", "n", ".">>,
      invalidRequest |-> <<"I", "n", "v", "a", "l", "i", "d", " ", "e", "m", "a", "i", "l", " ",
          "a", "d", "d", "r", "e", "s", "s", ".", " ", "P", "l", "e", "a", "s", "e", " ",
          "c", "h", "e", "c", "k", " ", "a", "n", "d", " ", "t", "r", "y", " ", "a", "g",
          "a", "i", "n", ".">>,
      rateLimited |-> <<"T", "o", "o", " ", "m", "a", "n", "y", " ", "r", "e", "q", "u", "e", "s",
          "t", "s", ".", " ", "P", "l", "e", "a", "s", "e", " ", "w", "a", "i", "t", " ",
          "a", " ", "m", "o", "m", "e", "n", "t", " ", "a", "n", "d", " ", "t", "r", "y",
          " ", "a", "g", "a", "i", "n", ".">>,
      serviceUnavailable |-> <<"S", "e", "r", "v", "i", "c", "e", " ", "t", "e", "m", "p", "o",
          "r", "a", "r", "i", "l", "y", " ", "u", "n", "a", "v", "a", "i", "l", "a", "b",
          "l", "e", ".", " ", "P", "l", "e", "a", "s", "e", " ", "t", "r", "y", " ", "a",
          "g", "a", "i", "n", " ", "i", "n", " ", "a", " ", "f", "e", "w", " ", "m", "i",
          "n", "u", "t", "e", "s", ".">>,
      unknown |-> <<"S", "o", "m", "e", "t", "h", "i", "n", "g", " ", "w", "e", "n", "t", " ",
          "w", "r", "o", "n", "g", ".", " ", "P", "l", "e", "a", "s", "e", " ", "t", "r",
          "y", " ", "a", "g", "a", "i", "n", ".">> ]

UserSentences == {Sentences[k] : k \in DOMAIN Sentences}

\* 'Submission failed'
SubmissionFailed ==
    <<"S", "u", "b", "m", "i", "s", "s", "i", "o", "n", " ", "f", "a", "i", "l", "e", "d">>

\* 'Thank you! We'll notify you as soon as the agenda is available.'
FormSuccessMessage ==
    <<"T", "h", "a", "n", "k", " ", "y", "o", "u", "!", " ", "W", "e", "'", "l", "l", " ", "n",
      "o", "t", "i", "f", "y", " ", "y", "o", "u", " ", "a", "s", " ", "s", "o", "o", "n", " ",
      "a", "s", " ", "t", "h", "e", " ", "a", "g", "e", "n", "d", "a", " ", "i", "s", " ", "a",
      "v", "a", "i", "l", "a", "b", "l", "e", ".">>

\* the messages of the errors that reach handleSubmit's catch, by what ended the last attempt
ThrownMessages ==
    [ failedToFetch |-> <<"F", "a", "i", "l", "e", "d", " ", "t", "o", " ", "f", "e", "t", "c",
          "h">>,
      abort |-> <<"T", "h", "e", " ", "u", "s", "e", "r", " ", "a", "b", "o", "r", "t", "e", "d",
          " ", "a", " ", "r", "e", "q", "u", "e", "s", "t", ".">>,
      api400 |-> <<"A", "P", "I", " ", "E", "r", "r", "o", "r", ":", " ", "4", "0", "0", " ", "B",
          "a", "d", " ", "R", "e", "q", "u", "e", "s", "t">>,
      api500 |-> <<"A", "P", "I", " ", "E", "r", "r", "o", "r", ":", " ", "5", "0", "0", " ", "I",
          "n", "t", "e", "r", "n", "a", "l", " ", "S", "e", "r", "v", "e", "r", " ", "E",
          "r", "r", "o", "r">>,
      jsonSyntax |-> <<"U", "n", "e", "x", "p", "e", "c", "t", "e", "d", " ", "t", "o", "k", "e",
          "n", " ", "<", " ", "i", "n", " ", "J", "S", "O", "N", " ", "a", "t", " ", "p",
          "o", "s", "i", "t", "i", "o", "n", " ", "0">>,
      simulated |-> <<"S", "i", "m", "u", "l", "a", "t", "e", "d", " ", "A", "P", "I", " ", "f",
          "a", "i", "l", "u", "r", "e", " ", "f", "o", "r", " ", "t", "e", "s", "t", "i",
          "n", "g">> ]

\* errorMessage = error?.message || error
ErrorMessageOf(error) ==
    IF error.t = "error" /\ error.s # <<>> THEN JsString(error.s) ELSE error

\* errorMessage.includes is not a function unless errorMessage is a string
GetErrorMessageThrows(error) == ErrorMessageOf(error).t # "string"

\* mutant: the raw error text is shown instead of a user sentence
GetErrorMessageRaw(error) == ErrorMessageOf(error).s

\* getErrorMessage(error)
GetErrorMessage(error) ==
    LET m == ErrorMessageOf(error).s
    IN  IF IncludesStr(m, Needles.failedToFetch) \/ IncludesStr(m, Needles.networkError)
        THEN Sentences.network
        ELSE IF IncludesStr(m, Needles.timeout) \/ IncludesStr(m, Needles.aborted)
        THEN Sentences.timeout
        ELSE IF IncludesStr(m, Needles.s400)
        THEN Sentences.invalidRequest
        ELSE IF IncludesStr(m, Needles.s429)
        THEN Sentences.rateLimited
        ELSE IF IncludesStr(m, Needles.s500) \/ IncludesStr(m, Needles.s502) \/ IncludesStr(m, Needles.s503)
        THEN Sentences.serviceUnavailable
        ELSE Sentences.unknown

\* How one attempt of makeApiCall can end: a 2xx response with a JSON body, a 2xx
\* response whose body is not JSON, a 400 or 500 response, a rejected fetch, or
\* the timeout aborting the request
Outcomes == {"ok", "badjson", "http400", "http500", "network", "timeout"}

\* The error thrown for an attempt that ended without success
ErrorOf(o) ==
    CASE o = "badjson" -> JsError(ThrownMessages.jsonSyntax)
      [] o = "http400" -> JsError(ThrownMessages.api400)
      [] o = "http500" -> JsError(ThrownMessages.api500)
      [] o = "network" -> JsError(ThrownMessages.failedToFetch)
      [] o = "timeout" -> JsError(ThrownMessages.abort)
      [] OTHER -> JsError(ThrownMessages.simulated)

\* controller.signal.aborted after the attempt: set only by the timeout
Aborted(o) == o = "timeout"

\* mutant: an aborted attempt is retried like any other failure
ShouldRetryAborted(retryCount, aborted) == retryCount < maxRetries

\* retryCount < this.apiConfig.maxRetries && !controller.signal.aborted
ShouldRetry(retryCount, aborted) == retryCount < maxRetries /\ ~aborted

\* mutant: every retry waits the base delay
BackoffDelayFlat(retryCount) == retryDelay

\* this.apiConfig.retryDelay * (retryCount + 1)
BackoffDelay(retryCount) == retryDelay * (retryCount + 1)

\* What the email field can hold
FormInputs ==
    { <<>>,
      <<" ", "J", "a", "n", "e", "@", "S", "c", "h", "o", "o", "l", ".", "o", "r", "g">>,
      <<"j", "a", "n", "e", "@">>,
      <<"t", "e", "s", "t", "@", "m", "a", "i", "l", "i", "n", "a", "t", "o", "r", ".", "c", "o", "m">> }

NoCall == [result |-> "none", outcomes |-> <<>>, shown |-> "none"]

Remove(q, i) == SubSeq(q, 1, i - 1) \o SubSeq(q, i + 1, Len(q))

\* new FormData(this.form).get('email'): a disabled control is left out of the
\* form data, so the entry is null while the loading state disables the input
FormDataEmail == IF loading THEN JsUndefined ELSE JsString(inputValue)

\* resetForm(): form.reset(), clearError, hideSuccess, isSubmitting = false
ResetForm ==
    /\ inputValue' = <<>>
    /\ errorText' = NoError
    /\ successVisible' = FALSE
    /\ isSubmitting' = FALSE

\* handleSubmit(e) up to 'await this.submitToZoho(validation.data)': the in-flight
\* guard, validation, then the flag, the loading state and the first request
\* (makeApiCall's fetch, or simulateApiCall's delay in development mode)
HandleSubmit ==
    /\ UNCHANGED <<serverVars, validatorVars, mappingVars, timerVars, rotatorVars>>
    /\ IF isSubmitting
       THEN UNCHANGED formVars
       ELSE
         LET validation == ValidateFormData(FormDataEmail)
         IN  IF ~validation.isValid
             THEN /\ errorText' = validation.error
                  /\ UNCHANGED <<isSubmitting, loading, inputValue, successVisible, resetTimers,
                                 debouncePending, calls, lastCall, started, development>>
             ELSE /\ started < MaxSubmits
                  /\ isSubmitting' = TRUE
                  /\ loading' = TRUE
                  /\ calls' = Append(calls, [email |-> validation.email,
                                             pc |-> IF development THEN "sim" ELSE "fetch",
                                             retryCount |-> 0, delay |-> 0, outcomes |-> <<>>])
                  /\ started' = started + 1
                  /\ lastCall' = NoCall
                  /\ UNCHANGED <<inputValue, successVisible, errorText, resetTimers,
                                 debouncePending, development>>

\* mutant: the finally block leaves the button and the field disabled
FinallyKeepsLoading ==
    /\ isSubmitting' = FALSE
    /\ loading' = loading

\* handleSubmit's finally block: isSubmitting = false, setLoadingState(false)
Finally ==
    /\ isSubmitting' = FALSE
    /\ loading' = FALSE

\* handleSubmit after submitToZoho returned {success: true}: handleSuccess shows
\* the success message, clears the error and schedules resetForm; then finally
Succeeded(i, o) ==
    /\ successVisible' = TRUE
    /\ errorText' = NoError
    /\ resetTimers' = resetTimers + 1
    /\ Finally
    /\ lastCall' = [result |-> "success", outcomes |-> Append(calls[i].outcomes, o), shown |-> "success"]
    /\ calls' = Remove(calls, i)
    /\ UNCHANGED <<inputValue, debouncePending, started, development>>

\* handleSubmit's catch: handleError(getErrorMessage(error)), and handleError maps
\* its argument through getErrorMessage again before showError; then finally
Threw(i, o) ==
    /\ lastCall' = [result |-> "threw", outcomes |-> Append(calls[i].outcomes, o), shown |-> "error"]
    /\ calls' = Remove(calls, i)
    /\ IF GetErrorMessageThrows(ErrorOf(o))
       THEN UNCHANGED errorText
       ELSE errorText' = GetErrorMessage(JsString(GetErrorMessage(ErrorOf(o))))
    /\ Finally
    /\ UNCHANGED <<inputValue, successVisible, resetTimers, debouncePending, started, development>>

\* One attempt of makeApiCall settles: success returns, a failure is retried after
\* the backoff delay unless the retries are used up or the attempt was aborted
FetchSettles(i, o) ==
    /\ i \in DOMAIN calls
    /\ UNCHANGED <<serverVars, validatorVars, mappingVars, timerVars, rotatorVars>>
    /\ calls[i].pc = "fetch"
    /\ IF o = "ok"
       THEN Succeeded(i, o)
       ELSE IF ShouldRetry(calls[i].retryCount, Aborted(o))
       THEN /\ calls' = [calls EXCEPT ![i] = [@ EXCEPT !.pc = "backoff",
                                                      !.delay = BackoffDelay(calls[i].retryCount),
                                                      !.outcomes = Append(@, o)]]
            /\ UNCHANGED <<isSubmitting, loading, inputValue, successVisible, errorText,
                           resetTimers, debouncePending, lastCall, started, development>>
       ELSE Threw(i, o)

\* await this.delay(..) is over: makeApiCall(payload, retryCount + 1) sends again
BackoffElapses(i) ==
    /\ i \in DOMAIN calls
    /\ UNCHANGED <<serverVars, validatorVars, mappingVars, timerVars, rotatorVars>>
    /\ calls[i].pc = "backoff"
    /\ calls' = [calls EXCEPT ![i] = [@ EXCEPT !.pc = "fetch", !.retryCount = @ + 1]]
    /\ UNCHANGED <<isSubmitting, loading, inputValue, successVisible, errorText,
                   resetTimers, debouncePending, lastCall, started, development>>

\* simulateApiCall after its delay: success, or the simulated failure is thrown
SimulateSettles(i, ok) ==
    /\ i \in DOMAIN calls
    /\ UNCHANGED <<serverVars, validatorVars, mappingVars, timerVars, rotatorVars>>
    /\ calls[i].pc = "sim"
    /\ IF ok THEN Succeeded(i, "ok") ELSE Threw(i, "simulated")

\* The auto-reset timer set by handleSuccess fires
ResetTimerFires ==
    /\ resetTimers > 0
    /\ UNCHANGED <<serverVars, validatorVars, mappingVars, timerVars, rotatorVars>>
    /\ resetTimers' = resetTimers - 1
    /\ ResetForm
    /\ UNCHANGED <<loading, debouncePending, calls, lastCall, started, development>>

\* An input event on the email field (the field is enabled): the debounced
\* validation is rescheduled, and a visible success message resets the form
UserInput(v) ==
    /\ ~loading
    /\ UNCHANGED <<serverVars, validatorVars, mappingVars, timerVars, rotatorVars>>
    /\ debouncePending' = TRUE
    /\ IF successVisible
       THEN ResetForm
       ELSE /\ inputValue' = v
            /\ UNCHANGED <<errorText, successVisible, isSubmitting>>
    /\ UNCHANGED <<loading, resetTimers, calls, lastCall, started, development>>

\* validate() of validateEmailRealTime, then handleValidation(result)
HandleValidation ==
    LET result == ValidateEmail(JsString(inputValue))
    IN  IF result.isValid
        THEN errorText' = NoError
        ELSE IF result.error # NoError /\ Len(inputValue) > 0
        THEN errorText' = result.error
        ELSE UNCHANGED errorText

\* The debounce timer fires
DebounceFires ==
    /\ debouncePending
    /\ UNCHANGED <<serverVars, validatorVars, mappingVars, timerVars, rotatorVars>>
    /\ debouncePending' = FALSE
    /\ HandleValidation
    /\ UNCHANGED <<isSubmitting, loading, inputValue, successVisible, resetTimers,
                   calls, lastCall, started, development>>

\* The field loses focus: immediate validation
Blur ==
    /\ ~loading
    /\ UNCHANGED <<serverVars, validatorVars, mappingVars, timerVars, rotatorVars>>
    /\ HandleValidation
    /\ UNCHANGED <<isSubmitting, loading, inputValue, successVisible, resetTimers,
                   debouncePending, calls, lastCall, started, development>>

InitForm ==
    /\ isSubmitting = FALSE
    /\ loading = FALSE
    /\ inputValue = <<>>
    /\ successVisible = FALSE
    /\ errorText = NoError
    /\ resetTimers = 0
    /\ debouncePending = FALSE
    /\ calls = <<>>
    /\ lastCall = NoCall
    /\ started = 0
    /\ development \in BOOLEAN

NextForm ==
    \/ HandleSubmit
    \/ \E i \in 1..MaxSubmits, o \in Outcomes : FetchSettles(i, o)
    \/ \E i \in 1..MaxSubmits : BackoffElapses(i)
    \/ \E i \in 1..MaxSubmits, ok \in BOOLEAN : SimulateSettles(i, ok)
    \/ ResetTimerFires
    \/ \E v \in FormInputs : UserInput(v)
    \/ DebounceFires
    \/ Blur

\* The events that touch a submission: submit, the request's steps, the
\* auto-reset timer and typing; the validation display of blur and of the
\* debounce timer is left out
NextSubmission ==
    \/ HandleSubmit
    \/ \E i \in 1..MaxSubmits, o \in Outcomes : FetchSettles(i, o)
    \/ \E i \in 1..MaxSubmits : BackoffElapses(i)
    \/ \E i \in 1..MaxSubmits, ok \in BOOLEAN : SimulateSettles(i, ok)
    \/ ResetTimerFires
    \/ \E v \in FormInputs : UserInput(v)

(***************************************************************************)
(* FormValidator.validateEmail called on its own                           *)
(***************************************************************************)
\* a local part of n characters that no suspicious pattern matches
LongLocal(n) == [i \in 1..n |-> IF i % 2 = 1 THEN "a" ELSE "b"]

\* a well-formed address of exactly n characters (n > 6)
AddressOfLength(n) == LongLocal(n - 5) \o <<"@", "b", ".", "c", "o">>

Spaces(n) == [i \in 1..n |-> " "]

\* Sample contents of the email field
Samples ==
    [ empty |-> <<>>,
      spaces |-> <<" ", " ", " ">>,
      tabNewline |-> <<" ", "\t", "\n">>,
      paddedMixedCase |-> <<" ", "J", "a", "n", "e", ".", "D", "o", "e", "@", "S", "c", "h", "o", "o", "l", "B", "o", "a", "r", "d", ".", "o", "r", "g", " ">>,
      janeDoe |-> <<"j", "a", "n", "e", ".", "d", "o", "e", "@", "s", "c", "h", "o", "o", "l", "b", "o", "a", "r", "d", ".", "o", "r", "g">>,
      userExample |-> <<"u", "s", "e", "r", "@", "e", "x", "a", "m", "p", "l", "e", ".", "c", "o", "m">>,
      testMailinator |-> <<"t", "e", "s", "t", "@", "m", "a", "i", "l", "i", "n", "a", "t", "o", "r", ".", "c", "o", "m">>,
      janeMailinator |-> <<"J", "a", "n", "e", "@", "M", "A", "I", "L", "I", "N", "A", "T", "O", "R", ".", "C", "O", "M">>,
      testSchool |-> <<"t", "e", "s", "t", "@", "s", "c", "h", "o", "o", "l", ".", "o", "r", "g">>,
      noDomain |-> <<"j", "a", "n", "e", "@">>,
      noAt |-> <<"j", "a", "n", "e", ".", "s", "c", "h", "o", "o", "l", ".", "o", "r", "g">>,
      twoAt |-> <<"a", "@", "b", "@", "c", ".", "o", "r", "g">>,
      digitsLocal |-> <<"1", "2", "3", "4", "5", "@", "s", "c", "h", "o", "o", "l", ".", "o", "r", "g">>,
      singleChar |-> <<"j", "@", "s", "c", "h", "o", "o", "l", ".", "o", "r", "g">>,
      fiveRepeats |-> <<"a", "a", "a", "a", "a", "@", "s", "c", "h", "o", "o", "l", ".", "o", "r", "g">>,
      fourRepeats |-> <<"a", "a", "a", "a", "@", "s", "c", "h", "o", "o", "l", ".", "o", "r", "g">>,
      hyphenLabel |-> <<"j", "a", "n", "e", "@", "-", "s", "c", "h", "o", "o", "l", ".", "o", "r", "g">>,
      dotLocal |-> <<"j", "a", "n", "e", "@", "s", "c", "h", "o", "o", "l", ".", "l", "o", "c", "a", "l">> ]

\* What validateEmail is called with: input.value and formData.get('email') are
\* strings, and an absent form entry is null
ValidatorStrings ==
    { Samples[k] : k \in DOMAIN Samples } \cup
    { AddressOfLength(MaxEmailLength),
      AddressOfLength(MaxEmailLength + 1),
      <<" ">> \o AddressOfLength(MaxEmailLength) \o <<" ">>,
      <<" ">> \o AddressOfLength(MaxEmailLength + 1),
      LongLocal(MaxEmailLength + 1),
      Spaces(MaxEmailLength + 1) }

ValidatorInputs == {JsUndefined} \cup {JsString(cs) : cs \in ValidatorStrings}

NoValidation == [called |-> FALSE, arg |-> JsUndefined, result |-> [isValid |-> FALSE, error |-> NoError, value |-> <<>>]]

\* the first call on the followed input; between: another input was validated since
NoFirst == [called |-> FALSE, result |-> NoValidation.result, between |-> FALSE]

\* validateEmail(email) is called on the validator object
ValidateEmailCall(email) ==
    LET result == ValidateEmailOn(validator, email)
    IN  /\ vCall' = [called |-> TRUE, arg |-> email, result |-> result]
        /\ vFirst' = IF ~vFirst.called
                     THEN IF email = vProbe
                          THEN [called |-> TRUE, result |-> result, between |-> FALSE]
                          ELSE vFirst
                     ELSE [vFirst EXCEPT !.between = @ \/ email # vProbe]
        /\ validator' = ValidateEmailEffect(validator, email)
        /\ UNCHANGED <<vProbe, serverVars, formVars, mappingVars, timerVars, rotatorVars>>

\* the validator as constructed, not yet called
InitValidator ==
    /\ validator = NewFormValidator
    /\ vProbe = JsUndefined
    /\ vFirst = NoFirst
    /\ vCall = NoValidation

NextValidator == \E email \in ValidatorInputs : ValidateEmailCall(email)

(***************************************************************************)
(* FormHandler.getErrorMessage and handleError called on their own         *)
(***************************************************************************)
\* Messages of errors a browser or the endpoint can produce beyond the ones above
OtherErrorMessages ==
    { <<"N", "e", "t", "w", "o", "r", "k", "E", "r", "r", "o", "r", " ", "w", "h", "e", "n", " ",
        "a", "t", "t", "e", "m", "p", "t", "i", "n", "g", " ", "t", "o", " ", "f", "e", "t", "c", "h">>,
      <<"A", "P", "I", " ", "E", "r", "r", "o", "r", ":", " ", "4", "2", "9", " ">>,
      <<"A", "P", "I", " ", "E", "r", "r", "o", "r", ":", " ", "5", "0", "2", " ">>,
      <<"A", "P", "I", " ", "E", "r", "r", "o", "r", ":", " ", "5", "0", "3", " ">>,
      <<"t", "i", "m", "e", "o", "u", "t">> }

\* What getErrorMessage can be given: Error objects (one with an empty message),
\* strings, and an absent value
ErrorInputs ==
    {JsUndefined, JsError(<<>>)}
    \cup {JsError(m) : m \in {ThrownMessages.failedToFetch, ThrownMessages.abort, ThrownMessages.api400, ThrownMessages.api500,
                              ThrownMessages.jsonSyntax, ThrownMessages.simulated, SubmissionFailed}
                             \cup OtherErrorMessages}
    \cup {JsString(m) : m \in UserSentences \cup {SubmissionFailed}}

NoMapping == [called |-> FALSE, arg |-> JsUndefined, threw |-> FALSE, result |-> <<>>]

\* getErrorMessage(error): returns a sentence, or throws the TypeError of calling
\* includes on something that is not a string
GetErrorMessageCall(error) ==
    /\ eCall' = [called |-> TRUE, arg |-> error, threw |-> GetErrorMessageThrows(error),
                 result |-> IF GetErrorMessageThrows(error) THEN <<>> ELSE GetErrorMessage(error)]
    /\ UNCHANGED <<eShown, serverVars, formVars, validatorVars, timerVars, rotatorVars>>

\* handleError(error): getErrorMessage(error), then showError(message)
HandleErrorCall(error) ==
    /\ eCall' = [called |-> TRUE, arg |-> error, threw |-> GetErrorMessageThrows(error),
                 result |-> IF GetErrorMessageThrows(error) THEN <<>> ELSE GetErrorMessage(error)]
    /\ eShown' = IF GetErrorMessageThrows(error) THEN eShown ELSE GetErrorMessage(error)
    /\ UNCHANGED <<serverVars, formVars, validatorVars, timerVars, rotatorVars>>

InitMapping ==
    /\ eCall = NoMapping
    /\ eShown = NoError

NextMapping ==
    \/ \E error \in ErrorInputs : GetErrorMessageCall(error)
    \/ \E error \in ErrorInputs : HandleErrorCall(error)

(***************************************************************************)
(* Timers: validateEmailRealTime and makeApiCall against elapsing time     *)
(***************************************************************************)
\* the debounce delay of validateEmailRealTime (its default, and what FormHandler passes)
delay == 300

NoTimer == -1

Min(a, b) == IF a <= b THEN a ELSE b

\* What is typed into the watched field
RealTimeValues == {<<>>, Samples.noDomain, Samples.janeDoe}

NoRuns == [timer |-> 0, blur |-> 0]

NoRealTimeRun == [by |-> "none", elapsed |-> 0, result |-> NoValidation.result]

\* validate(): callback(this.validateEmail(input.value))
RealTimeValidate(by) ==
    rtLog' = [by |-> by, elapsed |-> sinceInput, result |-> ValidateEmail(JsString(rtValue))]

\* mutant: an input event leaves a timer that is already set as it is
RescheduledTimerKeepsPending(pending) == IF pending = NoTimer THEN delay ELSE pending

\* clearTimeout(timeoutId); timeoutId = setTimeout(validate, delay)
RescheduledTimer(pending) == delay

\* The input listener of validateEmailRealTime
RealTimeInput(v) ==
    /\ rtValue' = v
    /\ timeoutId' = RescheduledTimer(timeoutId)
    /\ sinceInput' = 0
    /\ rtRuns' = NoRuns
    /\ UNCHANGED <<rtLog, api, serverVars, formVars, validatorVars, mappingVars, rotatorVars>>

\* The debounce timer is due and its callback validate runs
RealTimeTimeout ==
    /\ timeoutId = 0
    /\ timeoutId' = NoTimer
    /\ RealTimeValidate("timer")
    /\ rtRuns' = [rtRuns EXCEPT !.timer = @ + 1]
    /\ UNCHANGED <<rtValue, sinceInput, api, serverVars, formVars, validatorVars, mappingVars, rotatorVars>>

\* The blur listener of validateEmailRealTime: validate, at once
RealTimeBlur ==
    /\ rtRuns.blur < MaxBlurs
    /\ RealTimeValidate("blur")
    /\ rtRuns' = [rtRuns EXCEPT !.blur = @ + 1]
    /\ UNCHANGED <<rtValue, timeoutId, sinceInput, api, serverVars, formVars, validatorVars, mappingVars, rotatorVars>>

NoApiCall == [pc |-> "idle", retryCount |-> 0, wait |-> 0, waited |-> 0, outcomes |-> <<>>, retries |-> <<>>]

\* makeApiCall(payload): the first attempt is sent
MakeApiCall ==
    /\ api.pc \in {"idle", "returned", "threw"}
    /\ api' = [NoApiCall EXCEPT !.pc = "fetch"]
    /\ UNCHANGED <<realTimeVars, serverVars, formVars, validatorVars, mappingVars, rotatorVars>>

\* One attempt settles: success returns; a failure is followed by
\* up or the attempt was aborted, and then the error is thrown
ApiAttemptSettles(o) ==
    /\ api.pc = "fetch"
    /\ api' = IF o = "ok"
              THEN [api EXCEPT !.pc = "returned", !.outcomes = Append(@, o)]
              ELSE IF ShouldRetry(api.retryCount, Aborted(o))
              THEN [api EXCEPT !.pc = "delay", !.outcomes = Append(@, o),
                               !.wait = BackoffDelay(api.retryCount), !.waited = 0]
              ELSE [api EXCEPT !.pc = "threw", !.outcomes = Append(@, o)]
    /\ UNCHANGED <<realTimeVars, serverVars, formVars, validatorVars, mappingVars, rotatorVars>>

\* The delay is over: makeApiCall(payload, retryCount + 1) sends the next attempt
ApiDelayElapses ==
    /\ api.pc = "delay"
    /\ api.wait = 0
    /\ api' = [api EXCEPT !.pc = "fetch", !.retryCount = @ + 1,
                          !.retries = Append(@, [delay |-> BackoffDelay(api.retryCount), waited |-> api.waited])]
    /\ UNCHANGED <<realTimeVars, serverVars, formVars, validatorVars, mappingVars, rotatorVars>>

\* Time passes: running timers come closer to being due
Tick ==
    /\ \/ timeoutId > 0
       \/ (timeoutId # NoTimer /\ sinceInput < delay)
       \/ (api.pc = "delay" /\ api.wait > 0)
    /\ timeoutId' = IF timeoutId = NoTimer THEN NoTimer ELSE timeoutId - Min(Quantum, timeoutId)
    /\ sinceInput' = Min(delay, sinceInput + Quantum)
    /\ api' = IF api.pc = "delay"
              THEN [api EXCEPT !.wait = @ - Min(Quantum, @),
                               !.waited = Min(BackoffDelay(api.retryCount), @ + Quantum)]
              ELSE api
    /\ UNCHANGED <<rtValue, rtRuns, rtLog, serverVars, formVars, validatorVars, mappingVars, rotatorVars>>

InitTimers ==
    /\ rtValue = <<>>
    /\ timeoutId = NoTimer
    /\ sinceInput = 0
    /\ rtRuns = NoRuns
    /\ rtLog = NoRealTimeRun
    /\ api = NoApiCall

NextRealTime ==
    \/ \E v \in RealTimeValues : RealTimeInput(v)
    \/ RealTimeTimeout
    \/ RealTimeBlur
    \/ Tick

NextApiCall ==
    \/ MakeApiCall
    \/ \E o \in Outcomes : ApiAttemptSettles(o)
    \/ ApiDelayElapses
    \/ Tick

(***************************************************************************)
(* ImageRotator (js/components/image-rotator.js)                           *)
(***************************************************************************)
\* this.images, all preloaded
images ==
    << "career-tech-woman", "career-engineering", "career-diverse-team", "career-healthcare",
       "career-business-meeting", "career-construction", "career-office-work",
       "career-collaboration", "career-meeting-room", "career-modern-workspace" >>

\* pause()
Pause == isPaused' = TRUE

\* resume()
Resume == isPaused' = FALSE

\* mouseenter on the container: () => this.pause()
MouseEnter ==
    /\ ~hovered
    /\ hovered' = TRUE
    /\ Pause
    /\ UNCHANGED <<currentIndex, isVisible, hidden, fading>>
    /\ UNCHANGED <<serverVars, formVars, validatorVars, mappingVars, timerVars>>

\* mouseleave on the container: () => this.resume()
MouseLeave ==
    /\ hovered
    /\ hovered' = FALSE
    /\ Resume
    /\ UNCHANGED <<currentIndex, isVisible, hidden, fading>>
    /\ UNCHANGED <<serverVars, formVars, validatorVars, mappingVars, timerVars>>

\* visibilitychange on the document: the page was hidden or shown
VisibilityChange ==
    /\ hidden' = ~hidden
    /\ IF hidden'
       THEN /\ Pause
            /\ isVisible' = FALSE
       ELSE /\ isVisible' = TRUE
            /\ IF ~isPaused THEN Resume ELSE UNCHANGED isPaused
    /\ UNCHANGED <<currentIndex, hovered, fading>>
    /\ UNCHANGED <<serverVars, formVars, validatorVars, mappingVars, timerVars>>

\* The setInterval callback of startRotation, up to rotateToNext's await; the
\* interval (4000 ms) is longer than the transition, so no fade is in progress
IntervalTick ==
    /\ ~fading
    /\ IF ~isPaused /\ isVisible
       THEN IF Len(images) <= 1 THEN UNCHANGED fading ELSE fading' = TRUE
       ELSE UNCHANGED fading
    /\ UNCHANGED <<currentIndex, isPaused, isVisible, hidden, hovered>>
    /\ UNCHANGED <<serverVars, formVars, validatorVars, mappingVars, timerVars>>

\* rotateToNext after waitForTransition: swapImageElements, currentIndex = nextIndex
TransitionEnds ==
    /\ fading
    /\ fading' = FALSE
    /\ currentIndex' = (currentIndex + 1) % Len(images)
    /\ UNCHANGED <<isPaused, isVisible, hidden, hovered>>
    /\ UNCHANGED <<serverVars, formVars, validatorVars, mappingVars, timerVars>>

\* The constructor's fields; init() has attached the listeners and started the interval
InitRotator ==
    /\ currentIndex = 0
    /\ isPaused = FALSE
    /\ isVisible = TRUE
    /\ hidden = FALSE
    /\ hovered = FALSE
    /\ fading = FALSE

NextRotator ==
    \/ MouseEnter
    \/ MouseLeave
    \/ VisibilityChange
    \/ IntervalTick
    \/ TransitionEnds

(***************************************************************************)
(* Specifications                                                          *)
(***************************************************************************)
\* The capture handler alone, beside an untouched form
InitHandlerOnly ==
    /\ InitServer /\ InitForm /\ development = FALSE /\ InitValidator /\ InitMapping /\ InitTimers
    /\ InitRotator

SpecHandler == InitHandlerOnly /\ [][NextServer]_vars

\* The form alone, beside a fully configured idle handler
InitFormOnly ==
    /\ InitServer
    /\ env = [clientId |-> TRUE, clientSecret |-> TRUE, refreshToken |-> TRUE, listKey |-> TRUE]
    /\ InitForm
    /\ InitValidator
    /\ InitMapping
    /\ InitTimers
    /\ InitRotator

SpecForm == InitFormOnly /\ [][NextForm]_vars

\* The form when every network attempt eventually returns or is aborted by its
\* timeout, and every setTimeout of delay() and simulateApiCall() eventually fires
SpecFormLive ==
    /\ InitFormOnly
    /\ [][NextSubmission]_vars
    /\ WF_vars(\E i \in 1..MaxSubmits :
                  \/ \E o \in Outcomes : FetchSettles(i, o)
                  \/ BackoffElapses(i)
                  \/ \E ok \in BOOLEAN : SimulateSettles(i, ok))

\* The validator alone, called with any inputs in any order, beside an idle
\* handler and an untouched form
InitValidatorOnly ==
    /\ InitServer
    /\ env = [clientId |-> TRUE, clientSecret |-> TRUE, refreshToken |-> TRUE, listKey |-> TRUE]
    /\ InitForm
    /\ development = FALSE
    /\ validator = NewFormValidator
    /\ vProbe \in ValidatorInputs
    /\ vFirst = NoFirst
    /\ vCall = NoValidation
    /\ InitMapping
    /\ InitTimers
    /\ InitRotator

SpecValidator == InitValidatorOnly /\ [][NextValidator]_vars

\* The error display alone, beside an idle handler and an untouched form
SpecMapping == InitHandlerOnly /\ [][NextMapping]_vars

\* validateEmailRealTime alone against elapsing time
SpecRealTime == InitFormOnly /\ [][NextRealTime]_vars

\* makeApiCall alone against elapsing time
SpecApiCall == InitFormOnly /\ [][NextApiCall]_vars

\* The image rotator alone, beside an idle handler and an untouched form
SpecRotator == InitHandlerOnly /\ [][NextRotator]_vars

(***************************************************************************)
(* Properties of the form's submission pipeline                            *)
(***************************************************************************)
\* Requests of the form that are on the wire
InFlight == {i \in DOMAIN calls : calls[i].pc \in {"fetch", "sim"}}

\* C2 as stated: a handleSubmit invoked while an earlier submission of the form is
\* still pending starts no request, queues nothing and shows no error, and at most
\* one submission of the form is pending at any moment.
C2_SingleFlight ==
    [][ /\ (calls # <<>> /\ HandleSubmit) => (calls' = calls /\ errorText' = errorText)
        /\ Len(calls') <= 1 ]_vars

C4_NoRetryOn4xx ==
    /\ \A i \in DOMAIN calls : calls[i].pc = "fetch" =>
          \A k \in DOMAIN calls[i].outcomes : calls[i].outcomes[k] # "http400"
    /\ \A k \in DOMAIN lastCall.outcomes : lastCall.outcomes[k] = "http400" => k = Len(lastCall.outcomes)

IsAtEmail(v) == v.t = "string" /\ (\E i \in 1..Len(v.s) : v.s[i] = "@")

AnyConfigMissing == ~env.clientId \/ ~env.clientSecret \/ ~env.refreshToken \/ ~env.listKey

\* C1: for every POST whose email contains '@', an upstream failure of any kind
\* (token error, bulk-subscribe non-2xx, non-JSON body, provider code, rejected
\* fetch, missing configuration) is answered at once with status 200 and a body
\* holding a non-empty message, the submitted email and the source, the source
\* being 'career-launch-landing' when none was sent.
C1_SoftFailureGuarantee ==
    upstream = "failed" =>
        /\ req.method = "POST" /\ IsAtEmail(req.body.email)
        /\ pc = "done" /\ resCount = 1
        /\ res.status = 200
        /\ res.fields = {"message", "email", "source"}
        /\ res.message # ""
        /\ res.email = req.body.email
        /\ (req.body.source = JsUndefined => res.source = DefaultSource)
        /\ (req.body.source.t = "string" /\ req.body.source.s # <<>> => res.source = req.body.source)

\* C1 witness: the bulk-subscribe call answered 500 (not ok) for a POST without source
C1_Witness ==
    /\ upstream = "failed"
    /\ sent = <<"token", "bulk">>
    /\ bulkResp.net = "resolve" /\ ~bulkResp.ok
    /\ req.body.source = JsUndefined
    /\ res.status = 200

\* C6: within one request the bulk-subscribe request is sent only after the token
\* request of that request has completed successfully; while the token request is
\* pending, and when token acquisition failed (rejected fetch, non-JSON body,
\* non-2xx, error field), no bulk-subscribe request has been sent.
C6_TokenPrecedesBulk ==
    /\ (\E i \in DOMAIN sent : sent[i] = "bulk") =>
          /\ sent = <<"token", "bulk">>
          /\ tokenResp.net = "resolve" /\ tokenResp.json /\ tokenResp.ok /\ ~tokenResp.error
    /\ (tokenResp.net = "none" \/ tokenResp.net = "reject" \/ ~tokenResp.json
          \/ ~tokenResp.ok \/ tokenResp.error) =>
          (\A i \in DOMAIN sent : sent[i] # "bulk")

\* C6 witness: the bulk request has been sent after a completed token request
C6_Witness == pc = "bulk" /\ sent = <<"token", "bulk">> /\ tokenResp.ok

\* C7: when any of client id, client secret, refresh token or list key is absent,
\* handling a request sends nothing to the token endpoint and nothing to the
\* bulk-subscribe endpoint, and the handler never waits for a retry: it is either
\* idle or has answered.
C7_ConfigErrorNoTraffic ==
    AnyConfigMissing => (sent = <<>> /\ pc \in {"idle", "done"})

\* C7 witness: a valid POST handled with the refresh token absent and the list key present
C7_Witness ==
    /\ pc = "done" /\ upstream = "failed"
    /\ ~env.refreshToken /\ env.listKey /\ env.clientId /\ env.clientSecret
    /\ sent = <<>>

\* C8 as stated: the answer to a configuration error equals (status and message)
\* the answer to any other upstream failure, is never a 500, and equals (status
\* and message) the answer to a real success.
C8_IndistinguishableFromSuccess ==
    \A a \in log : a.cls = "config" =>
        /\ a.status # 500
        /\ \A b \in log : b.cls = "upstream" => (a.status = b.status /\ a.message = b.message)
        /\ \A b \in log : b.cls = "success" => (a.status = b.status /\ a.message = b.message)

\* C8 amended: the answer to a configuration error equals (status and message) the
\* answer to any other upstream failure and is never a 500; it has the status and
\* the body fields of a real success, but its message differs from the success one.
C8_SoftAckSameAsOtherFailures ==
    \A a \in log : a.cls = "config" =>
        /\ a.status # 500
        /\ \A b \in log : b.cls = "upstream" => (a.status = b.status /\ a.message = b.message)
        /\ \A b \in log : b.cls = "success" =>
              (a.status = b.status /\ a.fields = b.fields /\ a.message # b.message)

\* C8 witness: a configuration error, another upstream failure and a real success
\* have all been answered
C8_Witness ==
    /\ \E a \in log : a.cls = "config"
    /\ \E a \in log : a.cls = "upstream"
    /\ \E a \in log : a.cls = "success"

\* C9 as stated: a POST whose body has no email, or whose email contains no '@',
\* or whose body is not JSON, is answered with status 400 and a message field.
C9_MissingFieldIs400 ==
    (pc = "done" /\ req.method = "POST"
        /\ ~(req.body.kind = "object" /\ IsAtEmail(req.body.email))) =>
        (res.status = 400 /\ "message" \in res.fields)

\* C10: an OPTIONS request is answered with status 200 and an empty body, whatever
\* the request body and the configuration, and causes no outbound request.
C10_PreflightOk ==
    (req.method = "OPTIONS") =>
        /\ pc = "done" /\ resCount = 1
        /\ res.status = 200 /\ res.kind = "end" /\ res.fields = {}
        /\ sent = <<>>

\* C10 witness: a preflight with an unreadable body under a broken configuration
C10_Witness ==
    /\ req.method = "OPTIONS" /\ req.body.kind = "throws"
    /\ AnyConfigMissing
    /\ res.status = 200

(***************************************************************************)
(* Properties of FormValidator.validateEmail                               *)
(***************************************************************************)
\* The characters of the last argument (none for an absent argument)
ArgChars == IF vCall.arg.t = "string" THEN vCall.arg.s ELSE <<>>

\* How many whitespace characters the argument starts with, and ends with
LeadingWhitespace(s) == Cardinality({i \in DOMAIN s : \A j \in 1..i : s[j] \in {" ", "\t", "\n", "\r"}})

TrailingWhitespace(s) == Cardinality({i \in DOMAIN s : \A j \in i..Len(s) : s[j] \in {" ", "\t", "\n", "\r"}})

\* Length of the argument without the whitespace at its ends
TrimmedLength(s) ==
    IF LeadingWhitespace(s) = Len(s) THEN 0 ELSE Len(s) - LeadingWhitespace(s) - TrailingWhitespace(s)

\* C11: for every input, validateEmail returns isValid = true exactly when error
\* is null, and an invalid result carries one of the errors of the catalog.
C11_ValidIffNoError ==
    vCall.called =>
        /\ vCall.result.isValid <=> vCall.result.error = NoError
        /\ ~vCall.result.isValid => vCall.result.error \in ErrorCatalog

\* C11 witness: an address rejected at the last step carries a catalog error
C11_Witness ==
    /\ vCall.called /\ vCall.arg = JsString(Samples.testSchool)
    /\ ~vCall.result.isValid /\ vCall.result.error = Errors.INVALID_EMAIL

\* C12: for every input, accepted or rejected at any step, the value returned by
\* validateEmail is the input without the whitespace at its ends, lowercased, and
\* the empty string for an absent input.
C12_ValueIsTrimmedLowercased ==
    vCall.called =>
        LET s == ArgChars
            a == LeadingWhitespace(s)
            value == vCall.result.value
        IN  /\ Len(value) = TrimmedLength(s)
            /\ \A k \in DOMAIN value : value[k] = ToLowerChar(s[a + k])
            /\ \A k \in DOMAIN value : ~IsUpper(value[k])

\* C12 witness: a padded mixed-case address came back trimmed and lowercased
C12_Witness ==
    /\ vCall.called /\ vCall.arg = JsString(Samples.paddedMixedCase)
    /\ vCall.result.value = Samples.janeDoe

\* C13 as stated: every string longer than 254 characters gets the TooLong error.
C13_LongerThan254IsTooLong ==
    (vCall.called /\ Len(ArgChars) > MaxEmailLength) =>
        (~vCall.result.isValid /\ vCall.result.error = Errors.TOO_LONG)

\* C13 amended: every string that is longer than 254 characters after the
\* whitespace at its ends is removed gets the TooLong error, whatever else is wrong
\* with it; a string of 254 characters after trimming does not.
C13_TrimmedLongerThan254IsTooLong ==
    vCall.called =>
        /\ TrimmedLength(ArgChars) > MaxEmailLength =>
              (~vCall.result.isValid /\ vCall.result.error = Errors.TOO_LONG)
        /\ TrimmedLength(ArgChars) <= MaxEmailLength => vCall.result.error # Errors.TOO_LONG

\* C13 witness: a padded address of 255 characters after trimming is too long
C13_Witness ==
    /\ vCall.called /\ vCall.arg = JsString(<<" ">> \o AddressOfLength(MaxEmailLength + 1))
    /\ vCall.result.error = Errors.TOO_LONG

\* C14: the empty string, every whitespace-only string and an absent input get
\* the Required error.
C14_EmptyIsRequired ==
    (vCall.called /\ \A i \in DOMAIN ArgChars : ArgChars[i] \in {" ", "\t", "\n", "\r"}) =>
        (~vCall.result.isValid /\ vCall.result.error = Errors.REQUIRED)

\* C14 witness: a string of a space, a tab and a newline was rejected as required
C14_Witness ==
    /\ vCall.called /\ vCall.arg = JsString(Samples.tabNewline)
    /\ vCall.result.error = Errors.REQUIRED

\* C15: the error is that of the first failing step in the order Required,
\* TooLong, InvalidFormat, DisposableDomain, Suspicious; test@mailinator.com,
\* which fails both of the last two steps, is rejected as disposable.
C15_FirstFailingStep ==
    vCall.called =>
        LET v == vCall.result.value
            e == vCall.result.error
            early == FailsRequired(v) \/ FailsTooLong(v) \/ FailsFormat(v)
        IN  /\ FailsRequired(v) => e = Errors.REQUIRED
            /\ (~FailsRequired(v) /\ FailsTooLong(v)) => e = Errors.TOO_LONG
            /\ (~FailsRequired(v) /\ ~FailsTooLong(v) /\ FailsFormat(v)) => e = Errors.INVALID_EMAIL
            /\ (~early /\ DomainOf(v) \in DisposableDomains) => e = Errors.DISPOSABLE_EMAIL
            /\ (~early /\ DomainOf(v) \notin DisposableDomains /\ IsSuspiciousEmail(v)) => e = Errors.INVALID_EMAIL
            /\ (~early /\ DomainOf(v) \notin DisposableDomains /\ ~IsSuspiciousEmail(v)) => e = NoError
            /\ vCall.arg = JsString(Samples.testMailinator) => e = Errors.DISPOSABLE_EMAIL

\* C15 witness: test@mailinator.com, disposable and suspicious, rejected as disposable
C15_Witness ==
    /\ vCall.called /\ vCall.arg = JsString(Samples.testMailinator)
    /\ IsSuspiciousEmail(vCall.result.value)
    /\ vCall.result.error = Errors.DISPOSABLE_EMAIL

\* C16: a well-formed, non-disposable address that a suspicious pattern matches
\* is rejected with exactly the result fields of a malformed address (isValid
\* false and the same error), and jane.doe@schoolboard.org is valid.
C16_SuspiciousLooksMalformed ==
    vCall.called =>
        LET v == vCall.result.value
            malformed == ValidateEmailOn(validator, JsString(Samples.noDomain))
        IN  /\ ( /\ ~FailsRequired(v) /\ ~FailsTooLong(v) /\ ~FailsFormat(v)
                 /\ DomainOf(v) \notin DisposableDomains
                 /\ IsSuspiciousEmail(v) ) =>
                    /\ vCall.result.isValid = malformed.isValid
                    /\ vCall.result.error = malformed.error
                    /\ ~vCall.result.isValid
            /\ vCall.arg = JsString(Samples.janeDoe) => vCall.result.isValid

\* C16 witness: user@example.com was rejected with the malformed-address error
C16_Witness ==
    /\ vCall.called /\ vCall.arg = JsString(Samples.userExample)
    /\ ~vCall.result.isValid /\ vCall.result.error = Errors.INVALID_EMAIL

C18_TotalErrorMapping ==
    eCall.called => (~eCall.threw /\ eCall.result \in UserSentences)

(***************************************************************************)
(* Properties of the timers                                                *)
(***************************************************************************)
\* C19: a debounced validation runs at most once after an input event, and only
\* once the full delay (300 ms) has passed since the last input event of the
\* burst: the pending timer is always due exactly delay after the last input
\* event; and a blur runs one validation of the current value in the same step,
\* without waiting and without touching the pending timer.
C19_DebounceContract ==
    [][ /\ rtRuns'.timer <= 1
        /\ rtRuns'.timer > rtRuns.timer =>
              /\ sinceInput >= delay
              /\ rtLog'.by = "timer" /\ rtLog'.elapsed >= delay
              /\ rtLog'.result = ValidateEmail(JsString(rtValue))
        /\ timeoutId' # NoTimer =>
              \/ timeoutId' + sinceInput' = delay
              \/ (timeoutId' = 0 /\ sinceInput' >= delay)
        /\ rtRuns'.blur > rtRuns.blur =>
              /\ rtRuns'.blur = rtRuns.blur + 1
              /\ rtLog'.by = "blur" /\ rtLog'.elapsed = sinceInput
              /\ rtLog'.result = ValidateEmail(JsString(rtValue))
              /\ timeoutId' = timeoutId /\ sinceInput' = sinceInput ]_vars

\* C19 witness: after a burst the debounced validation has run, once, on the
\* last value typed, a full delay after the last input event
C19_Witness ==
    /\ rtLog.by = "timer" /\ rtRuns.timer = 1 /\ rtLog.elapsed >= delay
    /\ rtValue = Samples.janeDoe /\ rtLog.result.isValid
    /\ timeoutId = NoTimer

\* C20: an attempt of makeApiCall that fails at network level is retried until
\* maxRetries retries have been made; the delay awaited before retry number n
\* is retryDelay * n; no retry starts before that delay has elapsed; and a call
\* makes at most maxRetries + 1 attempts.
C20_LinearBackoff ==
    /\ Len(api.outcomes) <= maxRetries + 1
    /\ api.retryCount <= maxRetries /\ Len(api.retries) = api.retryCount
    /\ \A n \in DOMAIN api.retries :
          /\ api.retries[n].delay = retryDelay * n
          /\ api.retries[n].waited >= retryDelay * n
    /\ api.pc = "delay" =>
          /\ api.wait > 0 => api.wait + api.waited = retryDelay * (api.retryCount + 1)
          /\ api.wait = 0 => api.waited >= retryDelay * (api.retryCount + 1)
    /\ (api.pc = "threw" /\ api.outcomes[Len(api.outcomes)] = "network") =>
          Len(api.outcomes) = maxRetries + 1

\* C20 witness: four attempts failed at network level, with delays of 1000, 2000
\* and 3000 ms between them, and the call threw
C20_Witness ==
    /\ api.pc = "threw"
    /\ api.outcomes = <<"network", "network", "network", "network">>
    /\ Len(api.retries) = maxRetries
    /\ \A n \in 1..maxRetries : api.retries[n] = [delay |-> retryDelay * n, waited |-> retryDelay * n]

(***************************************************************************)
(* Further properties of the form                                          *)
(***************************************************************************)
\* C21: a handleSubmit whose form data fails validation sets neither isSubmitting
\* nor the loading state and issues no request; a request is issued only by a
\* handleSubmit that found the flag clear and the field's email valid, it sets the
\* flag and the loading state, and the email sent is the trimmed, lowercased value.
C21_RejectedOrSubmitting ==
    [][ /\ (HandleSubmit /\ ~ValidateEmail(FormDataEmail).isValid) =>
              UNCHANGED <<isSubmitting, loading, calls>>
        /\ Len(calls') > Len(calls) =>
              /\ ~isSubmitting /\ ~loading
              /\ ValidateEmail(JsString(inputValue)).isValid
              /\ Len(calls') = Len(calls) + 1
              /\ calls'[Len(calls')].email = NormalizedValue(JsString(inputValue))
              /\ calls'[Len(calls')].retryCount = 0
              /\ isSubmitting' /\ loading'
      ]_vars

\* C21 witness: ' Jane@School.org' was accepted and jane@school.org is being sent
C21_Witness ==
    /\ isSubmitting /\ loading
    /\ inputValue = <<" ", "J", "a", "n", "e", "@", "S", "c", "h", "o", "o", "l", ".", "o", "r", "g">>
    /\ Len(calls) = 1
    /\ calls[1].email = <<"j", "a", "n", "e", "@", "s", "c", "h", "o", "o", "l", ".", "o", "r", "g">>

\* C24 as stated: isSubmitting is true whenever a submitToZoho call started by
\* handleSubmit has not yet settled.
C24_FlagWhilePending == calls # <<>> => isSubmitting

\* C25: from every state, so after every accepted handleSubmit, a state is
\* eventually reached where no call is pending, isSubmitting is false and the
\* loading state is cleared; a call never makes more than maxRetries + 1 attempts.
C25_SubmissionFinishes ==
    /\ [](\A i \in DOMAIN calls :
             /\ calls[i].retryCount <= maxRetries
             /\ Len(calls[i].outcomes) <= calls[i].retryCount + 1)
    /\ [](Len(lastCall.outcomes) <= maxRetries + 1)
    /\ []<>(calls = <<>> /\ ~isSubmitting /\ ~loading)

\* C25 witness: a submission that used every attempt has finished
C25_Witness ==
    /\ lastCall.result = "threw" /\ Len(lastCall.outcomes) = maxRetries + 1
    /\ calls = <<>> /\ ~isSubmitting /\ ~loading

\* C26 as stated: getErrorMessage returns each of its own sentences unchanged, and
\* the sentence displayed for a thrown submission error is the sentence
\* getErrorMessage gives for that error.
C26_ShownSentenceIsCategory ==
    [][ /\ \A k \in DOMAIN Sentences :
              GetErrorMessage(JsString(Sentences[k])) = Sentences[k]
        /\ (lastCall' # lastCall /\ lastCall'.result = "threw") =>
              errorText' = GetErrorMessage(ErrorOf(lastCall'.outcomes[Len(lastCall'.outcomes)]))
      ]_vars

(***************************************************************************)
(* Further properties of the capture handler                               *)
(***************************************************************************)
\* C22 as stated: subscribeToZohoCampaigns succeeds exactly when the bulk response
\* has a success status, its body parses as JSON and the body's code is absent or
\* equal to "0".
C22_BulkSuccessIffCodeAbsentOrZeroString ==
    (pc = "done" /\ bulkResp.net = "resolve") =>
        (upstream = "ok" <=>
            (bulkResp.ok /\ bulkResp.json /\ bulkResp.code \in {JsUndefined, JsString(<<"0">>)}))

\* C22 amended: subscribeToZohoCampaigns succeeds exactly when the bulk response
\* has a success status, its body parses as JSON to a value other than null, and
\* the body's code is falsy (absent, 0, '') or equal to "0"; a non-success status,
\* a non-JSON body, a null body or any other code each make it fail.
C22_BulkSuccessIffNoTruthyCode ==
    (pc = "done" /\ bulkResp.net = "resolve") =>
        /\ upstream = "ok" <=>
              /\ bulkResp.ok /\ bulkResp.json /\ bulkResp.data # "null"
              /\ bulkResp.code \in {JsUndefined, JsNumber(0), JsString(<<>>), JsString(<<"0">>)}
        /\ upstream \in {"ok", "failed"}

\* C22 witness: a body with the numeric code 0 counted as success
C22_Witness ==
    /\ pc = "done" /\ upstream = "ok"
    /\ bulkResp.ok /\ bulkResp.code = JsNumber(0)

\* C23: an exception raised in the POST handler outside the upstream call (the
\* body cannot be destructured, or email has no includes method) is answered with
\* status 500 and the generic message, once, and no outbound request is made; a
\* 500 is never the answer to an upstream failure.
C23_UncaughtIs500 ==
    /\ ( /\ pc = "done" /\ req.method = "POST"
         /\ \/ DestructureThrows(req.body)
            \/ (Truthy(req.body.email) /\ ~HasIncludes(req.body.email)) ) =>
            /\ res.status = 500 /\ res.kind = "json"
            /\ res.message = "An error occurred. Please try again."
            /\ res.fields = {"message"}
            /\ resCount = 1
            /\ sent = <<>> /\ upstream = "none"
    /\ res.status = 500 => (sent = <<>> /\ upstream = "none")

\* C23 witness: a POST whose body getter throws was answered 500
C23_Witness ==
    /\ pc = "done" /\ req.method = "POST" /\ req.body.kind = "throws"
    /\ res.status = 500 /\ sent = <<>>

\* C27: a request to the token or bulk-subscribe endpoint is sent only while
\* handling a POST whose body email is a string containing '@'; OPTIONS, other
\* methods (405) and POSTs answered 400 send nothing; one POST sends at most one
\* token request and at most one bulk-subscribe request.
C27_OutboundGated ==
    /\ sent \in {<<>>, <<"token">>, <<"token", "bulk">>}
    /\ sent # <<>> =>
          (req.method = "POST" /\ req.body.kind = "object" /\ IsAtEmail(req.body.email))
    /\ (pc = "done" /\ res.status \in {400, 405}) => sent = <<>>
    /\ req.method \in {"OPTIONS", "GET"} => sent = <<>>

\* C27 witness: one POST with an '@' email has sent one token request and one
\* bulk-subscribe request and was answered
C27_Witness ==
    /\ pc = "done" /\ req.method = "POST" /\ IsAtEmail(req.body.email)
    /\ sent = <<"token", "bulk">>
    /\ \E a \in log : a.status = 405
    /\ \E a \in log : a.status = 400

\* C28: on every path through the handler exactly one response is sent, its
\* status is 200, 400, 405 or 500, and the three CORS headers were set before it.
C28_ExactlyOneResponse ==
    /\ resCount <= 1
    /\ pc = "done" <=> resCount = 1
    /\ pc = "done" =>
          /\ res.status \in {200, 400, 405, 500}
          /\ headers = { "Access-Control-Allow-Origin", "Access-Control-Allow-Methods",
                         "Access-Control-Allow-Headers" }

\* C28 witness: all six paths have been taken, each answered once
C28_Witness ==
    /\ pc = "done" /\ resCount = 1
    /\ \A c \in {"preflight", "method", "invalid", "success", "upstream", "error"} :
          \E a \in log : a.cls = c

\* C29 as stated: the bulk-subscribe request is sent only when the token endpoint
\* answered with a success status, no error field and a defined, non-empty
\* access_token.
C29_BulkOnlyWithRealToken ==
    (\E i \in DOMAIN sent : sent[i] = "bulk") =>
        (tokenResp.ok /\ ~tokenResp.error /\ tokenResp.token = "string")

(***************************************************************************)
(* Properties of the image rotator                                         *)
(***************************************************************************)
\* C30 as stated: whenever the page is visible and the pointer is not over the
\* container, isPaused is false and isVisible is true, so that the next interval
\* tick rotates; hiding the page never stops the rotation for good.
C30_ResumesWhenShown == (~hidden /\ ~hovered) => (~isPaused /\ isVisible)

====
